---- MODULE Spec2Model ----
(***************************************************************************)
(* mp4-to-mp3: the two command-line entry points of the repository,        *)
(*   src/mp4_to_mp3/cli.py  (variant "cli",    with auto-detect)           *)
(*   src/mp4_to_mp3.py      (variant "legacy", CBR/VBR only)               *)
(* modelled as one sequential process: main() walks from flag parsing      *)
(* through the prompts and the file collection into the per-file loop,     *)
(* blocking at every input() and at every external process it awaits.      *)
(***************************************************************************)
EXTENDS Integers, Sequences, FiniteSets, TLC

(***************************************************************************)
(* File names are sequences of character codes, so that suffix, stem,      *)
(* lower-casing and the ordering of paths are computed, not assumed.       *)
(***************************************************************************)
DOT == 46

\* str.lower() on one character code
LowerChar(c) == IF c >= 65 /\ c <= 90 THEN c + 32 ELSE c

\* str.lower()
Lower(s) == [i \in 1..Len(s) |-> LowerChar(s[i])]

\* str.rfind("."): the last index holding a dot, 0 when there is none
RFindDot(name) ==
    LET dots == {i \in 1..Len(name) : name[i] = DOT}
    IN  IF dots = {} THEN 0 ELSE CHOOSE i \in dots : \A j \in dots : j <= i

\* pathlib's PurePath.suffix: the part from the last dot, unless the dot is
\* the first or the last character of the name
Suffix(name) ==
    LET i == RFindDot(name)
    IN  IF 1 < i /\ i < Len(name) THEN SubSeq(name, i, Len(name)) ELSE <<>>

\* pathlib's PurePath.stem: the name without its suffix
Stem(name) ==
    LET i == RFindDot(name)
    IN  IF 1 < i /\ i < Len(name) THEN SubSeq(name, 1, i - 1) ELSE name

\* VIDEO_EXTS = {".mp4", ".m4v", ".mov"}
VIDEO_EXTS ==
    { <<46, 109, 112, 52>>, <<46, 109, 52, 118>>, <<46, 109, 111, 118>> }

\* p.suffix.lower() in VIDEO_EXTS
IsVideoName(name) == Lower(Suffix(name)) \in VIDEO_EXTS

\* str.__lt__: lexicographic order of two strings by character code
StrLess(s, t) ==
    \E k \in 1..(Len(t)) :
        /\ k <= Len(s) + 1
        /\ \A i \in 1..(k - 1) : s[i] = t[i]
        /\ IF k = Len(s) + 1 THEN TRUE ELSE s[k] < t[k]

\* PurePath.__lt__: lexicographic order of the tuples of path components
PathLess(p, q) ==
    \E k \in 1..(Len(q)) :
        /\ k <= Len(p) + 1
        /\ \A i \in 1..(k - 1) : p[i] = q[i]
        /\ IF k = Len(p) + 1 THEN TRUE ELSE StrLess(p[k], q[k])

\* str.strip(): the string without its leading and trailing blanks
Strip(s) ==
    LET keep == {i \in 1..Len(s) : s[i] # 32}
    IN  IF keep = {} THEN <<>>
        ELSE LET lo == CHOOSE i \in keep : \A j \in keep : i <= j
                 hi == CHOOSE i \in keep : \A j \in keep : j <= i
             IN  SubSeq(s, lo, hi)

(***************************************************************************)
(* The inputs of a run: the flags, the tools installed, the directory tree *)
(* under the input directory and the answers typed at the prompts.         *)
(***************************************************************************)
NULL == "null"

\* at most this many entries in the scanned directory tree
MaxEntries == 2
\* at most this many rejected answers per prompt
MaxBadAnswers == 1

\* names: "a.mp4", "a.MOV", "b.txt", ".mp4", "sub", "a.m4v", "c.mov", "OUT"
N_a_mp4 == <<97, 46, 109, 112, 52>>
N_a_MOV == <<97, 46, 77, 79, 86>>
N_b_txt == <<98, 46, 116, 120, 116>>
N_dotmp4 == <<46, 109, 112, 52>>
N_sub == <<115, 117, 98>>
N_a_m4v == <<97, 46, 109, 52, 118>>
N_c_mov == <<99, 46, 109, 111, 118>>
N_OUT == <<79, 85, 84>>
\* ".mp3", appended to the stem at the destination
MP3_SUFFIX == <<46, 109, 112, 51>>
\* codec names ffprobe can print: "mp3", "MP3", "aac"
C_mp3 == <<109, 112, 51>>
C_MP3 == <<77, 80, 51>>
C_aac == <<97, 97, 99>>

\* the entries a tree under the input directory is drawn from; paths are
\* relative to the input directory
FsUniverse ==
    { [path |-> <<N_a_mp4>>, kind |-> "file"],
      [path |-> <<N_a_MOV>>, kind |-> "file"],
      [path |-> <<N_b_txt>>, kind |-> "file"],
      [path |-> <<N_dotmp4>>, kind |-> "file"],
      [path |-> <<N_c_mov>>, kind |-> "dir"],
      [path |-> <<N_sub, N_a_m4v>>, kind |-> "file"] }

\* the entries of FsUniverse that are candidate video files
VideoUniverse ==
    { [path |-> <<N_a_mp4>>, kind |-> "file"],
      [path |-> <<N_a_MOV>>, kind |-> "file"],
      [path |-> <<N_sub, N_a_m4v>>, kind |-> "file"] }

\* the trees over a universe: some of its entries, together with the
\* directories that hold them
Trees(universe) ==
    { T \cup { [path |-> SubSeq(e.path, 1, Len(e.path) - 1), kind |-> "dir"] :
                 e \in {x \in T : Len(x.path) > 1} } :
        T \in {U \in SUBSET universe : Cardinality(U) <= MaxEntries} }

\* the positional argument: the input directory itself (<<>>) or one file name
InputPaths == {<<>>, <<N_a_mp4>>, <<N_b_txt>>}

\* --mode as typed; "unset" when the flag is not given
ModeFlags(variant) ==
    IF variant = "cli" THEN {"unset", "auto", "cbr", "vbr", "copy"}
    ELSE {"unset", "cbr", "vbr"}

\* --vbr-q as typed (type=int, default 2)
VbrQs == {-1, 2, 10}

\* the flags accepted by each parser
ArgSets(variant) ==
    [ modeFlag : ModeFlags(variant),
      recursive : BOOLEAN,
      overwrite : BOOLEAN,
      no_prompt : IF variant = "cli" THEN BOOLEAN ELSE {FALSE},
      vbr_q : VbrQs,
      out : BOOLEAN,
      input : InputPaths ]

\* lines typed at a prompt: "", "Y", " n", "ja", "x", "a", "C", "v"
Answers ==
    { <<>>, <<89>>, <<32, 110>>, <<106, 97>>, <<120>>, <<97>>, <<67>>, <<118>> }

(***************************************************************************)
(* State.                                                                  *)
(***************************************************************************)
VARIABLES
    variant,      \* which entry point runs: "cli" or "legacy"
    args,         \* the parsed flags (argparse namespace), fixed for the run
    tools,        \* which external tools shutil.which finds
    tree,         \* the directory tree under the input directory
    existing,     \* the destination paths that exist on disk
    pc,           \* the position of main()
    recursive,    \* main's local `recursive`
    mode,         \* main's local `mode`
    files,        \* main's local `files`
    idx,          \* the index in `files` of the loop variable f
    file_mode,    \* main's local `file_mode` (cli) / the mode passed on (legacy)
    bad,          \* rejected answers at the prompt now open
    prompts,      \* the questions asked so far, in order
    procs,        \* external processes started and not yet awaited
    spawned,      \* the external processes started so far, in order
    last,         \* what the most recently awaited external process returned
    invocations,  \* the ffmpeg command lines run so far, in order
    outcomes,     \* what was printed for each file reached, in order
    exitCode,     \* the exit status of the run; -1 while it runs
    fatal         \* the SystemExit message kind; "" when none was raised

vars ==
    << variant, args, tools, tree, existing, pc, recursive, mode, files, idx,
       file_mode, bad, prompts, procs, spawned, last, invocations, outcomes,
       exitCode, fatal >>

\* the inputs of a run never change during it
env == << variant, args, tools, tree >>

(***************************************************************************)
(* Paths and the file system.                                              *)
(***************************************************************************)
\* PurePath.name and PurePath.parent
Name(p) == p[Len(p)]
Parent(p) == SubSeq(p, 1, Len(p) - 1)

\* Path.exists(), Path.is_dir(), Path.is_file() on a path under the input
Exists(p) == p = <<>> \/ \E e \in tree : e.path = p
IsDir(p) == p = <<>> \/ [path |-> p, kind |-> "dir"] \in tree
IsFile(p) == [path |-> p, kind |-> "file"] \in tree

\* Path.iterdir(): the direct children; Path.rglob("*"): every descendant
IterDir == {e.path : e \in {x \in tree : Len(x.path) = 1}}
RGlob == {e.path : e \in tree}

\* the orders in which the operating system may list a set of paths
Listings(S) ==
    { f \in [1..Cardinality(S) -> S] :
        \A i, j \in 1..Cardinality(S) : f[i] = f[j] => i = j }

\* iter_inputs of cli.py: what the generator yields, as a set
iter_inputs(in_path, rec) ==
    IF IsDir(in_path)
    THEN IF rec
         THEN {p \in RGlob : IsFile(p) /\ IsVideoName(Name(p))}
         ELSE {p \in IterDir : IsFile(p) /\ IsVideoName(Name(p))}
    ELSE {in_path}

\* iter_inputs of mp4_to_mp3.py: the recursive branch does not test is_file
legacy_iter_inputs(in_path, rec) ==
    IF IsDir(in_path)
    THEN IF rec
         THEN {p \in RGlob : IsVideoName(Name(p))}
         ELSE {p \in IterDir : IsFile(p) /\ IsVideoName(Name(p))}
    ELSE {in_path}

\* sorted() of a listing, whose paths are distinct: the path with i - 1
\* smaller paths under PurePath.__lt__ comes i-th
Sorted(s) ==
    LET S == {s[k] : k \in 1..Len(s)}
    IN  [i \in 1..Len(s) |->
            CHOOSE x \in S : Cardinality({y \in S : PathLess(y, x)}) = i - 1]

\* the test of main's second filter: f.is_file() and f.suffix.lower() in VIDEO_EXTS
IsVideoFile(p) == IsFile(p) /\ IsVideoName(Name(p))

\* [f for f in files if f.is_file() and f.suffix.lower() in VIDEO_EXTS]
FilterVideo(s) == SelectSeq(s, IsVideoFile)

\* the collection without sorted()
CollectFiles_Unsorted(listing) == FilterVideo(listing)

\* main: files = sorted(iter_inputs(...)) followed by the second filter
CollectFiles(listing) == FilterVideo(Sorted(listing))

\* main: out_file = target_dir / (f.stem + ".mp3")
OutFile(f) ==
    [ dir |-> IF args.out THEN <<N_OUT>> ELSE Parent(f),
      name |-> Stem(Name(f)) \o MP3_SUFFIX ]

(***************************************************************************)
(* The pure functions of the two scripts.                                  *)
(***************************************************************************)
\* argparse: args.mode; cli.py gives --mode the default "auto",
\* mp4_to_mp3.py gives it none
ArgsMode ==
    IF args.modeFlag # "unset" THEN args.modeFlag
    ELSE IF variant = "cli" THEN "auto" ELSE NULL

\* main: the range test on --vbr-q; TRUE when the run must stop
VbrQRejected(m) == m = "vbr" /\ ~(0 <= args.vbr_q /\ args.vbr_q <= 9)

\* An optional value is a sequence of at most one element: <<>> is None.

\* ask_yes_no on one typed line: <<TRUE>>, <<FALSE>>, or <<>> to ask again;
\* the vocabulary is y, yes, j, ja / n, no, nein
ask_yes_no(raw, default) ==
    LET r == Lower(Strip(raw))
    IN  IF r = <<>> THEN <<default>>
        ELSE IF r \in { <<121>>, <<121, 101, 115>>, <<106>>, <<106, 97>> } THEN <<TRUE>>
        ELSE IF r \in { <<110>>, <<110, 111>>, <<110, 101, 105, 110>> } THEN <<FALSE>>
        ELSE <<>>

\* ask_choice on one typed line: <<key>>, or <<>> to ask again
ask_choice(raw, choices, default_key) ==
    LET r == Lower(Strip(raw))
    IN  IF r = <<>> THEN <<default_key>>
        ELSE IF r \in choices THEN <<r>>
        ELSE <<>>

\* the keys "a", "c", "v" of the two mode questions
K_a == <<97>>
K_c == <<99>>
K_v == <<118>>

\* what an ffprobe process can hand back: a non-zero exit, text that is not
\* JSON, JSON without streams, or JSON with a first stream whose codec_name
\* is absent or one of the codec names, and whose bit_rate converts or not
ProbeReturns ==
    { [rc |-> 1, json |-> FALSE, streams |-> <<>>],
      [rc |-> 0, json |-> FALSE, streams |-> <<>>],
      [rc |-> 0, json |-> TRUE, streams |-> <<>>] }
    \cup
    { [rc |-> 0, json |-> TRUE,
       streams |-> << [codec_name |-> c, bit_rate_ok |-> TRUE] >>] :
         c \in { <<>>, <<C_mp3>>, <<C_MP3>>, <<C_aac>> } }
    \cup
    { [rc |-> 0, json |-> TRUE,
       streams |-> << [codec_name |-> <<C_mp3>>, bit_rate_ok |-> FALSE] >>] }

\* ffprobe_audio_info: ProbeInfo.codec_name of what the process returned
ffprobe_audio_info(r) ==
    IF r.rc # 0 \/ ~r.json THEN <<>>
    ELSE IF r.streams = <<>> THEN <<>>
    ELSE IF ~r.streams[1].bit_rate_ok THEN <<>>
    ELSE r.streams[1].codec_name

\* autodetect_mode comparing the codec name as printed, without lower()
autodetect_mode_NoLower(codec_name) ==
    IF codec_name = <<C_mp3>> THEN "copy" ELSE "vbr"

\* autodetect_mode, from the codec_name of the probe
autodetect_mode(codec_name) ==
    LET codec == IF codec_name = <<>> THEN <<>> ELSE Lower(codec_name[1])
    IN  IF codec = C_mp3 THEN "copy"
        ELSE IF codec # <<>> THEN "vbr"
        ELSE "vbr"

\* what the ffprobe process of has_audio_stream can hand back
CheckReturns ==
    { [rc |-> 1, json |-> FALSE, streams |-> 0],
      [rc |-> 0, json |-> FALSE, streams |-> 0],
      [rc |-> 0, json |-> TRUE, streams |-> 0],
      [rc |-> 0, json |-> TRUE, streams |-> 1] }

\* has_audio_stream answering True when its probe fails
has_audio_stream_FailOpen(r) ==
    IF r.rc # 0 \/ ~r.json THEN TRUE ELSE r.streams > 0

\* has_audio_stream, from what its ffprobe process returned
has_audio_stream(r) ==
    IF r.rc # 0 \/ ~r.json THEN FALSE ELSE r.streams > 0

\* ensure_tools: the first tool that shutil.which does not find, or NULL
ensure_tools ==
    IF ~tools.ffmpeg THEN "ffmpeg not found"
    ELSE IF ~tools.ffprobe THEN "ffprobe not found"
    ELSE NULL

\* ensure_ffmpeg of mp4_to_mp3.py
ensure_ffmpeg == IF ~tools.ffmpeg THEN "ffmpeg not found" ELSE NULL

\* run_ffmpeg always allowing ffmpeg to overwrite
OverwriteFlag_AlwaysYes(overwrite) == "-y"

\* run_ffmpeg: the overwrite instruction appended to the command
OverwriteFlag(overwrite) == IF overwrite THEN "-y" ELSE "-n"

\* run_ffmpeg of cli.py: <<the command line>>, or <<>> for an unknown mode;
\* b is whether -b:a is given, q the optional -q:a level
ffmpeg_cmd(f, out_file, overwrite, m) ==
    IF m = "copy"
    THEN << [input |-> f, output |-> out_file, codec |-> "copy", b |-> FALSE,
             q |-> <<>>, flag |-> OverwriteFlag(overwrite)] >>
    ELSE IF m = "cbr"
    THEN << [input |-> f, output |-> out_file, codec |-> "libmp3lame", b |-> TRUE,
             q |-> <<>>, flag |-> OverwriteFlag(overwrite)] >>
    ELSE IF m = "vbr"
    THEN << [input |-> f, output |-> out_file, codec |-> "libmp3lame", b |-> FALSE,
             q |-> <<args.vbr_q>>, flag |-> OverwriteFlag(overwrite)] >>
    ELSE <<>>

\* run_ffmpeg of mp4_to_mp3.py: always libmp3lame, -q:a unless the mode is cbr
legacy_ffmpeg_cmd(f, out_file, overwrite, m) ==
    IF m = "cbr"
    THEN << [input |-> f, output |-> out_file, codec |-> "libmp3lame", b |-> TRUE,
             q |-> <<>>, flag |-> OverwriteFlag(overwrite)] >>
    ELSE << [input |-> f, output |-> out_file, codec |-> "libmp3lame", b |-> FALSE,
             q |-> <<args.vbr_q>>, flag |-> OverwriteFlag(overwrite)] >>

\* ffmpeg's exit statuses for a command: with -n it refuses an output that
\* exists; otherwise it may succeed or fail
FfmpegReturns(cmd) ==
    IF cmd.flag = "-n" /\ cmd.output \in existing THEN {1} ELSE {0, 1}

(***************************************************************************)
(* The run.                                                                *)
(***************************************************************************)
\* main has not started: no local is set, nothing was asked, started or printed
AtStart ==
    /\ pc = "start"
    /\ recursive = FALSE
    /\ mode = NULL
    /\ files = <<>>
    /\ idx = 1
    /\ file_mode = NULL
    /\ bad = 0
    /\ prompts = <<>>
    /\ procs = 0
    /\ spawned = <<>>
    /\ last = <<"none">>
    /\ invocations = <<>>
    /\ outcomes = <<>>
    /\ exitCode = -1
    /\ fatal = ""

\* the destination of the stem "a" next to the input (or under -o), which
\* may exist before the run
PreExisting ==
    { [dir |-> IF args.out THEN <<N_OUT>> ELSE <<>>, name |-> <<97>> \o MP3_SUFFIX] }

\* every flag combination and tool installation, over trees of video files
Init ==
    /\ variant \in {"cli", "legacy"}
    /\ args \in {a \in ArgSets(variant) : a.input # <<N_b_txt>>}
    /\ tools \in [ffmpeg : BOOLEAN, ffprobe : BOOLEAN]
    /\ tree \in Trees(VideoUniverse)
    /\ existing \in SUBSET PreExisting
    /\ AtStart

\* every tree and input path, under the flags that decide the collection
ScanInit ==
    /\ variant \in {"cli", "legacy"}
    /\ args \in {a \in ArgSets(variant) :
                    /\ a.vbr_q = 2 /\ ~a.overwrite /\ ~a.out
                    /\ a.modeFlag \in {"unset", "cbr"}}
    /\ tools = [ffmpeg |-> TRUE, ffprobe |-> TRUE]
    /\ tree \in Trees(FsUniverse)
    /\ existing = {}
    /\ AtStart

\* raise SystemExit(msg): the run ends with status 1
SystemExit(msg) ==
    /\ pc' = "done"
    /\ exitCode' = 1
    /\ fatal' = msg

\* subprocess.check_output / subprocess.run: one more process is alive
Spawn(tool) ==
    /\ procs' = procs + 1
    /\ spawned' = Append(spawned, tool)

\* main of cli.py: the recursive question is asked for a directory input
\* when neither --recursive nor --no-prompt is given
AsksRecursive == IsDir(args.input) /\ ~args.recursive /\ ~args.no_prompt

\* main of cli.py: the mode question is asked when args.mode is "auto" and
\* --no-prompt is not given
AsksMode == ArgsMode = "auto" /\ ~args.no_prompt

\* main of cli.py, lines 210-226: path and --vbr-q checks, recursive question
Start ==
    /\ pc = "start" /\ variant = "cli"
    /\ IF ~Exists(args.input)
       THEN /\ SystemExit("Path not found")
            /\ UNCHANGED <<recursive, prompts>>
       ELSE IF VbrQRejected(ArgsMode)
       THEN /\ SystemExit("--vbr-q must be between 0 and 9")
            /\ UNCHANGED <<recursive, prompts>>
       ELSE /\ recursive' = args.recursive
            /\ IF AsksRecursive
               THEN pc' = "ask_recursive" /\ prompts' = Append(prompts, "recursive")
               ELSE pc' = "collect" /\ UNCHANGED prompts
            /\ UNCHANGED <<exitCode, fatal>>
    /\ UNCHANGED << env, existing, mode, files, idx, file_mode, bad, procs, spawned,
                    last, invocations, outcomes >>

\* ask_yes_no("Scan subfolders recursively?", default=True): one line typed
AnswerRecursive(raw) ==
    /\ pc = "ask_recursive"
    /\ LET a == ask_yes_no(raw, TRUE)
       IN  IF a = <<>>
           THEN /\ bad < MaxBadAnswers
                /\ bad' = bad + 1
                /\ UNCHANGED <<pc, recursive>>
           ELSE /\ recursive' = a[1]
                /\ pc' = "collect"
                /\ bad' = 0
    /\ UNCHANGED << env, existing, mode, files, idx, file_mode, prompts, procs,
                    spawned, last, invocations, outcomes, exitCode, fatal >>

\* main of cli.py, lines 228-247: collect, sort, filter, then the mode question
Collect ==
    /\ pc = "collect" /\ variant = "cli"
    /\ \E listing \in Listings(iter_inputs(args.input, recursive)) :
          files' = CollectFiles(listing)
    /\ IF files' = <<>>
       THEN /\ SystemExit("No MP4/M4V/MOV files found")
            /\ UNCHANGED <<mode, prompts>>
       ELSE /\ mode' = ArgsMode
            /\ IF AsksMode
               THEN pc' = "ask_mode" /\ prompts' = Append(prompts, "mode")
               ELSE pc' = "loop" /\ UNCHANGED prompts
            /\ UNCHANGED <<exitCode, fatal>>
    /\ UNCHANGED << env, existing, recursive, idx, file_mode, bad, procs, spawned,
                    last, invocations, outcomes >>

\* main of cli.py, line 247: the mode a key of the mode question stands for
ModeOfKey(k) == IF k = K_a THEN "auto" ELSE IF k = K_c THEN "cbr" ELSE "vbr"

\* ask_choice("Encoding mode?", {a, c, v}, default a): one line typed
AnswerMode(raw) ==
    /\ pc = "ask_mode" /\ variant = "cli"
    /\ LET c == ask_choice(raw, {K_a, K_c, K_v}, K_a)
       IN  IF c = <<>>
           THEN /\ bad < MaxBadAnswers
                /\ bad' = bad + 1
                /\ UNCHANGED <<pc, mode>>
           ELSE /\ mode' = ModeOfKey(c[1])
                /\ pc' = "loop"
                /\ bad' = 0
    /\ UNCHANGED << env, existing, recursive, files, idx, file_mode, prompts, procs,
                    spawned, last, invocations, outcomes, exitCode, fatal >>

\* the test with its `not` lost
SkipsExisting_NotLost(out_file) == out_file \in existing /\ args.overwrite

\* main: `if out_file.exists() and not args.overwrite`
SkipsExisting(out_file) == out_file \in existing /\ ~args.overwrite

\* main of cli.py, lines 249-262: the head of the loop body for files[idx],
\* up to the first external process it starts
NextFile ==
    /\ pc = "loop" /\ variant = "cli" /\ idx <= Len(files)
    /\ LET f == files[idx]
           out_file == OutFile(f)
       IN  IF SkipsExisting(out_file)
           THEN /\ outcomes' = Append(outcomes, [file |-> f, result |-> "skip_exists"])
                /\ idx' = idx + 1
                /\ UNCHANGED <<pc, file_mode, procs, spawned, exitCode, fatal>>
           ELSE IF ensure_tools # NULL
           THEN /\ SystemExit(ensure_tools)
                /\ file_mode' = mode
                /\ UNCHANGED <<outcomes, idx, procs, spawned>>
           ELSE /\ file_mode' = mode
                /\ pc' = IF mode = "auto" THEN "probe" ELSE "check"
                /\ Spawn("ffprobe")
                /\ UNCHANGED <<outcomes, idx, exitCode, fatal>>
    /\ last' = <<"none">>
    /\ UNCHANGED << env, existing, recursive, mode, files, bad, prompts, invocations >>

\* autodetect_mode returns: the ffprobe of ffprobe_audio_info is awaited, the
\* mode is resolved and has_audio_stream starts its own ffprobe
ProbeReturn(r) ==
    /\ pc = "probe"
    /\ last' = <<"probe", r>>
    /\ file_mode' = autodetect_mode(ffprobe_audio_info(r))
    /\ IF ensure_tools # NULL
       THEN /\ SystemExit(ensure_tools)
            /\ procs' = procs - 1
            /\ UNCHANGED spawned
       ELSE /\ pc' = "check"
            /\ procs' = (procs - 1) + 1
            /\ spawned' = Append(spawned, "ffprobe")
            /\ UNCHANGED <<exitCode, fatal>>
    /\ UNCHANGED << env, existing, recursive, mode, files, idx, bad, prompts,
                    invocations, outcomes >>

\* has_audio_stream returns: its ffprobe is awaited; without audio the file is
\* skipped, otherwise run_ffmpeg builds the command and starts ffmpeg
CheckReturn(r) ==
    /\ pc = "check"
    /\ last' = <<"check", r>>
    /\ LET f == files[idx]
           cmd == ffmpeg_cmd(f, OutFile(f), args.overwrite, file_mode)
       IN  IF ~has_audio_stream(r)
           THEN /\ outcomes' = Append(outcomes, [file |-> f, result |-> "skip_noaudio"])
                /\ idx' = idx + 1
                /\ pc' = "loop"
                /\ procs' = procs - 1
                /\ UNCHANGED <<spawned, invocations, exitCode, fatal>>
           ELSE IF ensure_tools # NULL
           THEN /\ SystemExit(ensure_tools)
                /\ procs' = procs - 1
                /\ UNCHANGED <<outcomes, idx, spawned, invocations>>
           ELSE IF cmd = <<>>
           THEN /\ SystemExit("Unknown mode")
                /\ procs' = procs - 1
                /\ UNCHANGED <<outcomes, idx, spawned, invocations>>
           ELSE /\ invocations' = Append(invocations, cmd[1])
                /\ pc' = "encode"
                /\ procs' = (procs - 1) + 1
                /\ spawned' = Append(spawned, "ffmpeg")
                /\ UNCHANGED <<outcomes, idx, exitCode, fatal>>
    /\ UNCHANGED << env, existing, recursive, mode, files, file_mode, bad, prompts >>

\* run_ffmpeg with the failure caught per file: the loop goes on
EncodeReturn_CaughtPerFile(rc) ==
    /\ pc = "encode"
    /\ rc \in FfmpegReturns(invocations[Len(invocations)])
    /\ last' = <<"ffmpeg", rc>>
    /\ procs' = procs - 1
    /\ existing' = IF rc = 0 THEN existing \cup {invocations[Len(invocations)].output}
                   ELSE existing
    /\ outcomes' = Append(outcomes, [file |-> files[idx],
                                     result |-> IF rc = 0 THEN "ok" ELSE "failed"])
    /\ idx' = idx + 1
    /\ pc' = "loop"
    /\ UNCHANGED << env, recursive, mode, files, file_mode, bad, prompts, spawned,
                    invocations, exitCode, fatal >>

\* run_ffmpeg returns (both scripts): ffmpeg is awaited; a non-zero status
\* raises SystemExit, a zero status leaves the output on disk and prints OK
EncodeReturn(rc) ==
    /\ pc = "encode"
    /\ rc \in FfmpegReturns(invocations[Len(invocations)])
    /\ last' = <<"ffmpeg", rc>>
    /\ procs' = procs - 1
    /\ IF rc # 0
       THEN /\ SystemExit("Conversion failed")
            /\ UNCHANGED <<existing, outcomes, idx>>
       ELSE /\ existing' = existing \cup {invocations[Len(invocations)].output}
            /\ outcomes' = Append(outcomes, [file |-> files[idx], result |-> "ok"])
            /\ idx' = idx + 1
            /\ pc' = "loop"
            /\ UNCHANGED <<exitCode, fatal>>
    /\ UNCHANGED << env, recursive, mode, files, file_mode, bad, prompts, spawned,
                    invocations >>

\* main exiting with status 1 when some file was skipped
Finish_SkipFails ==
    /\ pc = "loop" /\ idx > Len(files)
    /\ pc' = "done"
    /\ exitCode' = IF \E k \in 1..Len(outcomes) : outcomes[k].result # "ok" THEN 1 ELSE 0
    /\ UNCHANGED << env, existing, recursive, mode, files, idx, file_mode, bad,
                    prompts, procs, spawned, last, invocations, outcomes, fatal >>

\* main returns after the last file: the interpreter exits with status 0
Finish ==
    /\ pc = "loop" /\ idx > Len(files)
    /\ pc' = "done"
    /\ exitCode' = 0
    /\ UNCHANGED << env, existing, recursive, mode, files, idx, file_mode, bad,
                    prompts, procs, spawned, last, invocations, outcomes, fatal >>

(***************************************************************************)
(* mp4_to_mp3.py: mode question, recursive question, --vbr-q check,        *)
(* collection, and a loop without probing.                                 *)
(***************************************************************************)
\* main of mp4_to_mp3.py: the recursive question is asked for a directory
\* input when --recursive is not given
LegacyAsksRecursive == IsDir(args.input) /\ ~args.recursive

\* main of mp4_to_mp3.py, lines 84-103: path check, then the first question
LegacyStart ==
    /\ pc = "start" /\ variant = "legacy"
    /\ IF ~Exists(args.input)
       THEN /\ SystemExit("Path not found")
            /\ UNCHANGED <<mode, recursive, prompts>>
       ELSE /\ mode' = ArgsMode
            /\ UNCHANGED <<exitCode, fatal>>
            /\ IF ArgsMode = NULL
               THEN /\ pc' = "ask_mode"
                    /\ prompts' = Append(prompts, "mode")
                    /\ UNCHANGED recursive
               ELSE /\ recursive' = args.recursive
                    /\ IF LegacyAsksRecursive
                       THEN pc' = "ask_recursive" /\ prompts' = Append(prompts, "recursive")
                       ELSE pc' = "collect" /\ UNCHANGED prompts
    /\ UNCHANGED << env, existing, files, idx, file_mode, bad, procs, spawned, last,
                    invocations, outcomes >>

\* ask_choice("CBR oder VBR?", {c, v}, default v), then the recursive question
LegacyAnswerMode(raw) ==
    /\ pc = "ask_mode" /\ variant = "legacy"
    /\ LET c == ask_choice(raw, {K_c, K_v}, K_v)
       IN  IF c = <<>>
           THEN /\ bad < MaxBadAnswers
                /\ bad' = bad + 1
                /\ UNCHANGED <<pc, mode, recursive, prompts>>
           ELSE /\ mode' = IF c[1] = K_c THEN "cbr" ELSE "vbr"
                /\ bad' = 0
                /\ recursive' = args.recursive
                /\ IF LegacyAsksRecursive
                   THEN pc' = "ask_recursive" /\ prompts' = Append(prompts, "recursive")
                   ELSE pc' = "collect" /\ UNCHANGED prompts
    /\ UNCHANGED << env, existing, files, idx, file_mode, procs, spawned, last,
                    invocations, outcomes, exitCode, fatal >>

\* main of mp4_to_mp3.py, lines 105-114: --vbr-q check, collect, sort, filter
LegacyCollect ==
    /\ pc = "collect" /\ variant = "legacy"
    /\ IF VbrQRejected(mode)
       THEN /\ SystemExit("--vbr-q must be between 0 and 9")
            /\ UNCHANGED files
       ELSE /\ \E listing \in Listings(legacy_iter_inputs(args.input, recursive)) :
                  files' = CollectFiles(listing)
            /\ IF files' = <<>>
               THEN SystemExit("No MP4/M4V/MOV files found")
               ELSE pc' = "loop" /\ UNCHANGED <<exitCode, fatal>>
    /\ UNCHANGED << env, existing, recursive, mode, idx, file_mode, bad, prompts,
                    procs, spawned, last, invocations, outcomes >>

\* main of mp4_to_mp3.py, lines 116-132: the loop body for files[idx], up to
\* the ffmpeg process run_ffmpeg starts
LegacyNextFile ==
    /\ pc = "loop" /\ variant = "legacy" /\ idx <= Len(files)
    /\ LET f == files[idx]
           out_file == OutFile(f)
           cmd == legacy_ffmpeg_cmd(f, out_file, args.overwrite, mode)
       IN  IF SkipsExisting(out_file)
           THEN /\ outcomes' = Append(outcomes, [file |-> f, result |-> "skip_exists"])
                /\ idx' = idx + 1
                /\ UNCHANGED <<pc, file_mode, procs, spawned, invocations, exitCode, fatal>>
           ELSE IF ensure_ffmpeg # NULL
           THEN /\ SystemExit(ensure_ffmpeg)
                /\ file_mode' = mode
                /\ UNCHANGED <<outcomes, idx, procs, spawned, invocations>>
           ELSE /\ file_mode' = mode
                /\ invocations' = Append(invocations, cmd[1])
                /\ pc' = "encode"
                /\ Spawn("ffmpeg")
                /\ UNCHANGED <<outcomes, idx, exitCode, fatal>>
    /\ last' = <<"none">>
    /\ UNCHANGED << env, existing, recursive, mode, files, bad, prompts >>

Next ==
    \/ Start
    \/ \E raw \in Answers : AnswerRecursive(raw)
    \/ Collect
    \/ \E raw \in Answers : AnswerMode(raw)
    \/ NextFile
    \/ \E r \in ProbeReturns : ProbeReturn(r)
    \/ \E r \in CheckReturns : CheckReturn(r)
    \/ \E rc \in {0, 1} : EncodeReturn(rc)
    \/ Finish
    \/ LegacyStart
    \/ \E raw \in Answers : LegacyAnswerMode(raw)
    \/ LegacyCollect
    \/ LegacyNextFile

Spec == Init /\ [][Next]_vars

ScanSpec == ScanInit /\ [][Next]_vars

\* the runs of Init that write next to the sources, with --vbr-q 2 or 10
LiveInit ==
    /\ variant \in {"cli", "legacy"}
    /\ args \in {a \in ArgSets(variant) :
                    a.input # <<N_b_txt>> /\ a.vbr_q \in {2, 10} /\ ~a.out}
    /\ tools \in [ffmpeg : BOOLEAN, ffprobe : BOOLEAN]
    /\ tree \in Trees(VideoUniverse)
    /\ existing \in SUBSET PreExisting
    /\ AtStart

\* every prompt is answered within its bound and every process returns:
\* whatever main can do next, it eventually does
LiveSpec == LiveInit /\ [][Next]_vars /\ WF_vars(Next)

(***************************************************************************)
(* Shorthands of the properties.                                           *)
(***************************************************************************)
\* the mode an ffmpeg command line encodes with
CmdMode(cmd) == IF cmd.codec = "copy" THEN "copy" ELSE IF cmd.b THEN "cbr" ELSE "vbr"

\* the ffmpeg command lines run for the file f
InvocationsOf(f) == {i \in 1..Len(invocations) : invocations[i].input = f}

\* an ffprobe return that names a first audio stream whose codec is mp3
ProbedMp3(r) ==
    /\ r.rc = 0 /\ r.json /\ r.streams # <<>>
    /\ r.streams[1].bit_rate_ok
    /\ r.streams[1].codec_name \in { <<C_mp3>>, <<C_MP3>> }

\* an ffprobe return from which no audio stream can be read
NoAudioReported(r) == r.rc # 0 \/ ~r.json \/ r.streams = 0

\* files is strictly increasing under the path order
StrictlySorted(s) == \A i, j \in 1..Len(s) : i < j => PathLess(s[i], s[j])

(***************************************************************************)
(* C1                                                                      *)
(***************************************************************************)
\* C1: with overwrite not set, a file whose destination exists when the loop
\* reaches it is reported skipped in that very step, no process is started
\* and no ffmpeg command is run for it, and the loop moves to the next file;
\* no ffmpeg command is ever run for a file reported "skip (exists)".
C1_ExistingDestinationSkipped ==
    /\ [][ ( /\ pc = "loop" /\ idx <= Len(files)
             /\ ~args.overwrite
             /\ OutFile(files[idx]) \in existing )
           => ( /\ outcomes' = Append(outcomes,
                                     [file |-> files[idx], result |-> "skip_exists"])
                /\ invocations' = invocations
                /\ spawned' = spawned
                /\ idx' = idx + 1
                /\ pc' = "loop" ) ]_vars
    /\ [](\A k \in 1..Len(outcomes) :
            outcomes[k].result = "skip_exists" => InvocationsOf(outcomes[k].file) = {})

\* C1 witness: a file is skipped because an earlier conversion of the same run
\* created its destination
C1_Witness ==
    /\ ~args.overwrite
    /\ \E i, j \in 1..Len(outcomes) :
          /\ i < j
          /\ outcomes[i].result = "ok"
          /\ outcomes[j].result = "skip_exists"
          /\ OutFile(outcomes[i].file) = OutFile(outcomes[j].file)
          /\ InvocationsOf(outcomes[j].file) = {}

(***************************************************************************)
(* C2                                                                      *)
(***************************************************************************)
\* C2: when the mode in force is auto, the mode resolved for a file is copy
\* exactly when the probe names mp3 as the codec of the first audio stream,
\* and vbr for every other return of the probe; a mode of cbr, vbr or copy is
\* passed on as it is; the command ffmpeg is started with encodes with the
\* resolved mode; cbr is never the result of auto.
C2_ModeResolution ==
    /\ (pc = "check" /\ mode = "auto") =>
          /\ last[1] = "probe"
          /\ file_mode = IF ProbedMp3(last[2]) THEN "copy" ELSE "vbr"
    /\ (pc \in {"probe", "check", "encode"} /\ mode # "auto") => file_mode = mode
    /\ pc = "encode" => CmdMode(invocations[Len(invocations)]) = file_mode
    /\ \A i \in 1..Len(invocations) :
          /\ mode = "auto" => CmdMode(invocations[i]) \in {"copy", "vbr"}
          /\ mode # "auto" => CmdMode(invocations[i]) = mode

\* C2 witness: one run in auto mode resolves one file to copy and another to vbr
C2_Witness ==
    /\ mode = "auto"
    /\ \E i, j \in 1..Len(invocations) :
          CmdMode(invocations[i]) = "copy" /\ CmdMode(invocations[j]) = "vbr"

(***************************************************************************)
(* C3                                                                      *)
(***************************************************************************)
\* C3: with --vbr-q outside 0..9 the run stops before any file is processed;
\* stated by what that rules out last: ffmpeg is never run with a quality
\* level outside 0..9.
C3_EncoderQualityInRange ==
    \A i \in 1..Len(invocations) :
        invocations[i].q # <<>> =>
            (0 <= invocations[i].q[1] /\ invocations[i].q[1] <= 9)

(***************************************************************************)
(* C4                                                                      *)
(***************************************************************************)
\* C4: when the audio check of a file returns without an audio stream (or its
\* probe fails or prints no JSON), the file is reported "no audio, skipped",
\* which is not the report of an existing destination, no ffmpeg command is
\* run for it and the run goes on with the next file.
C4_NoAudioSkipped ==
    /\ (last[1] = "check" /\ NoAudioReported(last[2])) =>
          /\ pc \in {"loop", "done"}
          /\ pc = "done" => exitCode = 0
          /\ idx > 1 /\ Len(outcomes) = idx - 1
          /\ outcomes[idx - 1] = [file |-> files[idx - 1], result |-> "skip_noaudio"]
    /\ \A k \in 1..Len(outcomes) :
          outcomes[k].result = "skip_noaudio" => InvocationsOf(outcomes[k].file) = {}

\* C4 witness: a file resolved to copy is skipped for want of an audio stream
\* after its check failed, and a later file of the run is reached
C4_Witness ==
    /\ Len(outcomes) >= 2
    /\ outcomes[1].result = "skip_noaudio"
    /\ last[1] = "check" /\ last[2].rc # 0
    /\ file_mode = "copy"
    /\ invocations = <<>>

(***************************************************************************)
(* C5                                                                      *)
(***************************************************************************)
\* the regular files under the input whose lower-cased extension is
\* recognized: all of them for a recursive scan, the direct children otherwise;
\* for a file input, the file itself when its extension is recognized
ExpectedCandidates ==
    IF args.input = <<>>
    THEN { e.path : e \in { x \in tree :
              /\ x.kind = "file"
              /\ Lower(Suffix(x.path[Len(x.path)])) \in VIDEO_EXTS
              /\ (recursive \/ Len(x.path) = 1) } }
    ELSE IF Lower(Suffix(args.input[1])) \in VIDEO_EXTS THEN {args.input} ELSE {}

\* main is past the collection of the files
Collected ==
    \/ pc \in {"loop", "probe", "check", "encode"}
    \/ pc = "ask_mode" /\ variant = "cli"
    \/ pc = "done" /\ fatal \notin {"Path not found", "--vbr-q must be between 0 and 9"}

\* C5: once collected, files holds exactly the regular files with a recognized
\* lower-cased extension (from subdirectories only when the scan is
\* recursive), in strictly increasing path order, hence without duplicates;
\* the run ends with "no files found" exactly when there is none.
C5_CandidateFileSet ==
    Collected =>
        /\ {files[i] : i \in 1..Len(files)} = ExpectedCandidates
        /\ StrictlySorted(files)
        /\ (fatal = "No MP4/M4V/MOV files found") = (ExpectedCandidates = {})

\* C5 witness: a recursive scan collected, in order, a direct child with an
\* upper-case extension and a file of a subdirectory
C5_Witness ==
    /\ Collected /\ recursive
    /\ files = << <<N_a_MOV>>, <<N_sub, N_a_m4v>> >>

(***************************************************************************)
(* C6                                                                      *)
(***************************************************************************)
\* C6 as claimed: after ffmpeg fails on a file the run continues, so a run
\* never ends on a failed conversion with later files left unprocessed.
C6_RunContinuesAfterFailure ==
    (pc = "done" /\ fatal = "Conversion failed") => idx >= Len(files)

\* C6 as amended: a non-zero exit status of ffmpeg ends the whole run with
\* status 1 and the message "Conversion failed"; the failed file and every
\* later file get no outcome, and nothing is started for the later files.
C6_FailureEndsRun ==
    (last[1] = "ffmpeg" /\ last[2] # 0) =>
        /\ pc = "done" /\ exitCode = 1 /\ fatal = "Conversion failed"
        /\ procs = 0
        /\ Len(outcomes) = idx - 1
        /\ \A k \in (idx + 1)..Len(files) : InvocationsOf(files[k]) = {}
        /\ invocations[Len(invocations)].input = files[idx]

\* C6 witness: ffmpeg failed on a file that is not the last candidate
C6_Witness ==
    /\ last[1] = "ffmpeg" /\ last[2] # 0
    /\ pc = "done" /\ fatal = "Conversion failed"
    /\ idx < Len(files)

(***************************************************************************)
(* C7                                                                      *)
(***************************************************************************)
\* C7: no question is asked under --no-prompt; the recursive question is not
\* asked when --recursive is given; the mode question is not asked when --mode
\* is given, whatever its value; every question precedes the first process.
C7_PromptsOnlyWhenUnset ==
    /\ args.no_prompt => prompts = <<>>
    /\ args.recursive => \A i \in 1..Len(prompts) : prompts[i] # "recursive"
    /\ args.modeFlag # "unset" => \A i \in 1..Len(prompts) : prompts[i] # "mode"
    /\ pc \in {"ask_recursive", "ask_mode"} => spawned = <<>>

(***************************************************************************)
(* C8                                                                      *)
(***************************************************************************)
\* the tool check of the entry point that runs finds a tool missing
ToolMissing ==
    IF variant = "cli" THEN ~tools.ffmpeg \/ ~tools.ffprobe ELSE ~tools.ffmpeg

\* C8: with a required tool missing the run ends at once with a non-zero
\* status; stated by what that rules out last: such a run never exits zero.
C8_MissingToolNeverExitsZero ==
    ToolMissing => exitCode # 0

(***************************************************************************)
(* C9                                                                      *)
(***************************************************************************)
\* what holds of every state of a run, for C9
C9_Safety ==
    /\ procs \in {0, 1}
    /\ (procs = 1) = (pc \in {"probe", "check", "encode"})
    /\ pc = "done" => (exitCode = 0) = (fatal = "")
    /\ pc # "done" => exitCode = -1 /\ fatal = ""
    /\ (pc = "done" /\ exitCode = 0) =>
          /\ files # <<>>
          /\ StrictlySorted(files)
          /\ Len(outcomes) = Len(files)
          /\ \A i \in 1..Len(files) :
                /\ outcomes[i].file = files[i]
                /\ outcomes[i].result \in {"ok", "skip_exists", "skip_noaudio"}
                /\ (outcomes[i].result = "ok") = (Cardinality(InvocationsOf(files[i])) = 1)
                /\ (outcomes[i].result # "ok") = (InvocationsOf(files[i]) = {})
    /\ (pc = "done" /\ files # <<>> /\ Len(outcomes) = Len(files)) => exitCode = 0

\* C9: every run ends; at most one external process is alive at a time and it
\* is awaited before main goes on; the run exits zero exactly when no
\* SystemExit was raised, and then every candidate file was visited once, in
\* sorted order, with one outcome, converted or skipped; a run in which every
\* file got an outcome, skipped ones included, exits zero.
C9_TerminatesWithOutcomes ==
    /\ <>(pc = "done")
    /\ []C9_Safety

\* C9 witness: a run that asked both questions ends with status 0 after one
\* file was converted and another skipped
C9_Witness ==
    /\ pc = "done" /\ exitCode = 0
    /\ Len(prompts) = 2
    /\ Len(outcomes) = 2
    /\ outcomes[1].result = "ok"
    /\ outcomes[2].result = "skip_noaudio"

(***************************************************************************)
(* C10                                                                     *)
(***************************************************************************)
\* C10: with overwrite not set, no two ffmpeg commands of a run write the same
\* destination, and once a file is converted every later file with that
\* destination is skipped; every command carries -n when overwrite is not set
\* and -y when it is.
C10_OneEncoderPerDestination ==
    /\ ~args.overwrite =>
          /\ \A i, j \in 1..Len(invocations) :
                invocations[i].output = invocations[j].output => i = j
          /\ \A i, j \in 1..Len(outcomes) :
                ( /\ i < j
                  /\ outcomes[i].result = "ok"
                  /\ OutFile(outcomes[i].file) = OutFile(outcomes[j].file) )
                => outcomes[j].result = "skip_exists"
    /\ \A i \in 1..Len(invocations) :
          invocations[i].flag = IF args.overwrite THEN "-y" ELSE "-n"

\* C10 witness: under a shared -o directory a file of a subdirectory is
\* skipped after the file of the same stem next to the input was converted
C10_Witness ==
    /\ args.out /\ ~args.overwrite
    /\ Len(invocations) = 1
    /\ invocations[1].flag = "-n"
    /\ outcomes = << [file |-> <<N_a_mp4>>, result |-> "ok"],
                     [file |-> <<N_sub, N_a_m4v>>, result |-> "skip_exists"] >>

====
